---------------------------- MODULE Spec2Model ----------------------------
(***************************************************************************)
(* Model of Articoli_Sec_8k.py: the SEC 8-K press-release crawler.         *)
(*                                                                         *)
(* Strings that the code inspects character by character (file names,      *)
(* exhibit types, style attributes, identifiers) are sequences of          *)
(* one-character strings.  Document text is a sequence of runs             *)
(* [c |-> character, n |-> repetitions], an exact encoding of a string     *)
(* that keeps a body of a thousand characters small.                       *)
(***************************************************************************)
EXTENDS Integers, Sequences, FiniteSets, TLC

\* ------------------------------------------------------------------------
\* Bounds of the model
\* ------------------------------------------------------------------------

\* rows of the "recent" arrays the submissions resource serves per company
MaxFilings == 3

\* entries of a manifest handed to the selection stage on its own
MaxItems == 3

\* ------------------------------------------------------------------------
\* Character strings
\* ------------------------------------------------------------------------

UpperAlpha ==
    <<"A","B","C","D","E","F","G","H","I","J","K","L","M",
      "N","O","P","Q","R","S","T","U","V","W","X","Y","Z">>

LowerAlpha ==
    <<"a","b","c","d","e","f","g","h","i","j","k","l","m",
      "n","o","p","q","r","s","t","u","v","w","x","y","z">>

\* the characters the regular expression class \s matches
Whitespace == {" ", "\t", "\n", "\r", "\f"}

\* str.lower() on one character
LowerChar(c) ==
    IF \E k \in 1..Len(UpperAlpha) : UpperAlpha[k] = c
    THEN LowerAlpha[CHOOSE k \in 1..Len(UpperAlpha) : UpperAlpha[k] = c]
    ELSE c

\* str.lower()
Lower(s) == [k \in 1..Len(s) |-> LowerChar(s[k])]

\* the Python test  sub in s
Contains(s, sub) ==
    \E i \in 0..(Len(s) - Len(sub)) : SubSeq(s, i + 1, i + Len(sub)) = sub

\* str.endswith
EndsWith(s, suf) ==
    /\ Len(s) >= Len(suf)
    /\ SubSeq(s, Len(s) - Len(suf) + 1, Len(s)) = suf

\* str.startswith
StartsWith(s, pre) ==
    /\ Len(s) >= Len(pre)
    /\ SubSeq(s, 1, Len(pre)) = pre

\* re.sub(r"\s+", " ", s): every maximal run of whitespace becomes one space
RECURSIVE CollapseWs(_)
CollapseWs(s) ==
    IF s = <<>> THEN <<>>
    ELSE IF Head(s) \in Whitespace
         THEN IF Len(s) > 1 /\ s[2] \in Whitespace
              THEN CollapseWs(Tail(s))
              ELSE <<" ">> \o CollapseWs(Tail(s))
         ELSE <<Head(s)>> \o CollapseWs(Tail(s))

\* str.strip(): leading and trailing whitespace removed
RECURSIVE Strip(_)
Strip(s) ==
    IF s = <<>> THEN <<>>
    ELSE IF Head(s) \in Whitespace THEN Strip(Tail(s))
    ELSE IF s[Len(s)] \in Whitespace THEN Strip(SubSeq(s, 1, Len(s) - 1))
    ELSE s

\* dict.get(key, default)
DictGet(d, key, default) == IF key \in DOMAIN d THEN d[key] ELSE default

\* ------------------------------------------------------------------------
\* Attachment selection (is_text_file, normalize, score_item)
\* ------------------------------------------------------------------------

PRESS_KEYWORDS ==
    << <<"p","r","e","s","s"," ","r","e","l","e","a","s","e">>,
       <<"e","a","r","n","i","n","g","s"," ","r","e","l","e","a","s","e">>,
       <<"n","e","w","s"," ","r","e","l","e","a","s","e">>,
       <<"c","o","n","f","e","r","e","n","c","e"," ","c","a","l","l">>,
       <<"p","r","e","p","a","r","e","d"," ","r","e","m","a","r","k","s">>,
       <<"i","n","v","e","s","t","o","r"," ",
         "p","r","e","s","e","n","t","a","t","i","o","n">> >>

\* variant: .pdf counted among the textual extensions
is_text_fileWithPdf(name) ==
    LET n == Lower(name)
    IN  \/ EndsWith(n, <<".","h","t","m">>)
        \/ EndsWith(n, <<".","h","t","m","l">>)
        \/ EndsWith(n, <<".","t","x","t">>)
        \/ EndsWith(n, <<".","p","d","f">>)

is_text_file(name) ==
    LET n == Lower(name)
    IN  \/ EndsWith(n, <<".","h","t","m">>)
        \/ EndsWith(n, <<".","h","t","m","l">>)
        \/ EndsWith(n, <<".","t","x","t">>)

normalize(s) == Strip(CollapseWs(Lower(s)))

\* variant: the second type test written as elif of the first
score_itemElif(item) ==
    LET name == normalize(DictGet(item, "name", <<>>))
        typ  == normalize(DictGet(item, "type", <<>>))
        s1 == IF \/ Contains(typ, <<"9","9",".","1">>)
                 \/ Contains(typ, <<"9","9",".","0","1">>)
                 \/ Contains(typ, <<"e","x","-","9","9">>)
              THEN 100 ELSE 0
        s2 == IF s1 = 0 /\ (\/ Contains(typ, <<"e","x","-","9","9",".","1">>)
                            \/ Contains(typ, <<"e","x","-","9","9",".","0","1">>))
              THEN 120 ELSE 0
        s3 == IF \/ Contains(name, <<"e","x","9","9">>)
                 \/ Contains(name, <<"e","x","-","9","9">>)
              THEN 50 ELSE 0
        s4 == IF \/ Contains(name, <<"9","9","_","1">>)
                 \/ Contains(name, <<"9","9","-","1">>)
                 \/ Contains(name, <<"9","9",".","1">>)
                 \/ Contains(name, <<"9","9","0","1">>)
              THEN 30 ELSE 0
        s5 == 20 * Cardinality({k \in 1..Len(PRESS_KEYWORDS) :
                                   Contains(name, PRESS_KEYWORDS[k])})
        s6 == IF is_text_file(DictGet(item, "name", <<>>)) THEN 10 ELSE 0 - 100
    IN  s1 + s2 + s3 + s4 + s5 + s6

\* variant: a press keyword is worth 5 points instead of 20
score_itemWeakKeyword(item) ==
    LET name == normalize(DictGet(item, "name", <<>>))
        typ  == normalize(DictGet(item, "type", <<>>))
        s1 == IF \/ Contains(typ, <<"9","9",".","1">>)
                 \/ Contains(typ, <<"9","9",".","0","1">>)
                 \/ Contains(typ, <<"e","x","-","9","9">>)
              THEN 100 ELSE 0
        s2 == IF \/ Contains(typ, <<"e","x","-","9","9",".","1">>)
                 \/ Contains(typ, <<"e","x","-","9","9",".","0","1">>)
              THEN 120 ELSE 0
        s3 == IF \/ Contains(name, <<"e","x","9","9">>)
                 \/ Contains(name, <<"e","x","-","9","9">>)
              THEN 50 ELSE 0
        s4 == IF \/ Contains(name, <<"9","9","_","1">>)
                 \/ Contains(name, <<"9","9","-","1">>)
                 \/ Contains(name, <<"9","9",".","1">>)
                 \/ Contains(name, <<"9","9","0","1">>)
              THEN 30 ELSE 0
        s5 == 5 * Cardinality({k \in 1..Len(PRESS_KEYWORDS) :
                                  Contains(name, PRESS_KEYWORDS[k])})
        s6 == IF is_text_file(DictGet(item, "name", <<>>)) THEN 10 ELSE 0 - 100
    IN  s1 + s2 + s3 + s4 + s5 + s6

score_item(item) ==
    LET name == normalize(DictGet(item, "name", <<>>))
        typ  == normalize(DictGet(item, "type", <<>>))
        s1 == IF \/ Contains(typ, <<"9","9",".","1">>)
                 \/ Contains(typ, <<"9","9",".","0","1">>)
                 \/ Contains(typ, <<"e","x","-","9","9">>)
              THEN 100 ELSE 0
        s2 == IF \/ Contains(typ, <<"e","x","-","9","9",".","1">>)
                 \/ Contains(typ, <<"e","x","-","9","9",".","0","1">>)
              THEN 120 ELSE 0
        s3 == IF \/ Contains(name, <<"e","x","9","9">>)
                 \/ Contains(name, <<"e","x","-","9","9">>)
              THEN 50 ELSE 0
        s4 == IF \/ Contains(name, <<"9","9","_","1">>)
                 \/ Contains(name, <<"9","9","-","1">>)
                 \/ Contains(name, <<"9","9",".","1">>)
                 \/ Contains(name, <<"9","9","0","1">>)
              THEN 30 ELSE 0
        s5 == 20 * Cardinality({k \in 1..Len(PRESS_KEYWORDS) :
                                   Contains(name, PRESS_KEYWORDS[k])})
        s6 == IF is_text_file(DictGet(item, "name", <<>>)) THEN 10 ELSE 0 - 100
    IN  s1 + s2 + s3 + s4 + s5 + s6

\* variant: the search stops at the first candidate that reaches 20
MaxByScoreFirstAccepted(candidates) ==
    LET above == {i \in 1..Len(candidates) : score_item(candidates[i]) >= 20}
        k     == IF above = {} THEN 1
                 ELSE CHOOSE i \in above : \A j \in above : i <= j
    IN  candidates[k]

\* variant: the last candidate of maximal score
MaxByScoreLast(candidates) ==
    LET k == CHOOSE i \in 1..Len(candidates) :
                 /\ \A j \in 1..Len(candidates) :
                        score_item(candidates[j]) <= score_item(candidates[i])
                 /\ \A j \in (i + 1)..Len(candidates) :
                        score_item(candidates[j]) < score_item(candidates[i])
    IN  candidates[k]

\* max(candidates, key=score_item): the first candidate of maximal score
MaxByScore(candidates) ==
    LET k == CHOOSE i \in 1..Len(candidates) :
                 /\ \A j \in 1..Len(candidates) :
                        score_item(candidates[j]) <= score_item(candidates[i])
                 /\ \A j \in 1..(i - 1) :
                        score_item(candidates[j]) < score_item(candidates[i])
    IN  candidates[k]

\* ------------------------------------------------------------------------
\* Markup text extraction (clean_html_to_text)
\* ------------------------------------------------------------------------
\* A parsed document is a sequence of nodes.  A text node is
\* [kind |-> "text", s |-> runs]; an element is
\* [kind |-> "tag", name |-> characters, attrs |-> record, contents |-> nodes].

\* len() of a run-encoded string
RECURSIVE RunLen(_)
RunLen(t) == IF t = <<>> THEN 0 ELSE Head(t).n + RunLen(Tail(t))

\* str.strip() of a run-encoded string
RECURSIVE RunStrip(_)
RunStrip(t) ==
    IF t = <<>> THEN <<>>
    ELSE IF Head(t).c \in Whitespace THEN RunStrip(Tail(t))
    ELSE IF t[Len(t)].c \in Whitespace THEN RunStrip(SubSeq(t, 1, Len(t) - 1))
    ELSE t

\* variant: the pattern written  r"\s\s", every pair of whitespace
\* characters becomes one space
RECURSIVE RunCollapseWsPairs(_)
RunCollapseWsPairs(t) ==
    IF t = <<>> THEN <<>>
    ELSE IF Head(t).n = 0 THEN RunCollapseWsPairs(Tail(t))
    ELSE IF Head(t).c \in Whitespace
         THEN IF Head(t).n >= 2
              THEN <<[c |-> " ", n |-> 1]>>
                   \o RunCollapseWsPairs(<<[Head(t) EXCEPT !.n = @ - 2]>> \o Tail(t))
              ELSE IF Len(t) > 1 /\ t[2].c \in Whitespace
              THEN <<[c |-> " ", n |-> 1]>>
                   \o RunCollapseWsPairs(<<[t[2] EXCEPT !.n = @ - 1]>>
                                          \o Tail(Tail(t)))
              ELSE <<Head(t)>> \o RunCollapseWsPairs(Tail(t))
         ELSE <<Head(t)>> \o RunCollapseWsPairs(Tail(t))

\* re.sub(r"\s+", " ", text) of a run-encoded string
RECURSIVE RunCollapseWs(_)
RunCollapseWs(t) ==
    IF t = <<>> THEN <<>>
    ELSE IF Head(t).c \in Whitespace
         THEN IF Len(t) > 1 /\ t[2].c \in Whitespace
              THEN RunCollapseWs(Tail(t))
              ELSE <<[c |-> " ", n |-> 1]>> \o RunCollapseWs(Tail(t))
         ELSE <<Head(t)>> \o RunCollapseWs(Tail(t))

\* the three find_all predicates of clean_html_to_text
TagMatches(pass, node) ==
    CASE pass = "script_style" ->
            node.name \in { <<"s","c","r","i","p","t">>, <<"s","t","y","l","e">> }
      [] pass = "ix" ->
            /\ node.name # <<>>
            /\ StartsWith(Lower(node.name), <<"i","x",":">>)
      [] pass = "hidden" ->
            LET v == DictGet(node.attrs, "style", <<>>)
            IN  /\ v # <<>>
                /\ Contains(Lower(SelectSeq(v, LAMBDA ch : ch # " ")),
                            <<"d","i","s","p","l","a","y",":","n","o","n","e">>)

\* decompose() of every element, at any depth, that the pass matches
RECURSIVE Decompose(_, _)
Decompose(pass, nodes) ==
    IF nodes = <<>> THEN <<>>
    ELSE LET h == Head(nodes)
         IN  IF h.kind = "text"
             THEN <<h>> \o Decompose(pass, Tail(nodes))
             ELSE IF TagMatches(pass, h)
                  THEN Decompose(pass, Tail(nodes))
                  ELSE <<[h EXCEPT !.contents = Decompose(pass, h.contents)]>>
                       \o Decompose(pass, Tail(nodes))

\* soup.get_text(separator=" ", strip=True): the text nodes in document
\* order, each stripped, the empty ones dropped, joined by one space
RECURSIVE GetText(_)
GetText(nodes) ==
    IF nodes = <<>> THEN <<>>
    ELSE LET h    == Head(nodes)
             here == IF h.kind = "text" THEN RunStrip(h.s) ELSE GetText(h.contents)
             rest == GetText(Tail(nodes))
         IN  IF here = <<>> THEN rest
             ELSE IF rest = <<>> THEN here
             ELSE here \o <<[c |-> " ", n |-> 1]>> \o rest

clean_html_to_text(content) ==
    LET soup1 == Decompose("script_style", content)
        soup2 == Decompose("ix", soup1)
        soup3 == Decompose("hidden", soup2)
        text  == GetText(soup3)
    IN  RunStrip(RunCollapseWs(text))

\* ------------------------------------------------------------------------
\* Configuration
\* ------------------------------------------------------------------------

\* the dictionary aziende_cik, in insertion order
aziende_cik ==
    << [azienda |-> "Microsoft", cik |-> <<"0","0","0","0","7","8","9","0","1","9">>],
       [azienda |-> "Apple",     cik |-> <<"0","0","0","0","3","2","0","1","9","3">>],
       [azienda |-> "Nvidia",    cik |-> <<"0","0","0","1","0","4","5","8","1","0">>] >>

N_8K_PER_COMPANY == 300

\* SLEEP_SEC = 0.25, in milliseconds
SLEEP_SEC == 250

\* the default of the parameter tries of get_with_retry
tries == 4

\* variant: the acceptance threshold set too low
MinScoreTooLow == 20 - 10

\* the acceptance threshold on the winner's score
MinScore == 20

\* variant: the length test written  len(text) <= 1000
MinTextLenOffByOne == 1000 + 1

\* the threshold on the length of the extracted text
MinTextLen == 1000

\* the value None
None == [none |-> TRUE]

\* str.zfill(width)
ZFill(s, width) ==
    IF Len(s) >= width THEN s
    ELSE [k \in 1..(width - Len(s)) |-> "0"] \o s

\* str(int(s)) for a string of decimal digits
RECURSIVE StrInt(_)
StrInt(s) ==
    IF Len(s) > 1 /\ Head(s) = "0" THEN StrInt(Tail(s)) ELSE s

\* accession.replace("-", "")
RemoveHyphens(s) == SelectSeq(s, LAMBDA ch : ch # "-")

\* https://data.sec.gov/submissions/CIK{cik.zfill(10)}.json
SubmissionsUrl(cik) ==
    [host |-> "data.sec.gov", dir |-> "submissions",
     cik |-> <<"C","I","K">> \o ZFill(cik, 10), acc |-> <<>>,
     file |-> <<".","j","s","o","n">>]

\* https://www.sec.gov/Archives/edgar/data/{cik_short}/{accession_clean}/{file}
ArchiveUrl(cik_short, accession_clean, file) ==
    [host |-> "www.sec.gov", dir |-> "Archives/edgar/data",
     cik |-> cik_short, acc |-> accession_clean, file |-> file]

IndexJson == <<"i","n","d","e","x",".","j","s","o","n">>

\* ------------------------------------------------------------------------
\* The remote service: what each URL serves when it answers 200
\* ------------------------------------------------------------------------

Digit(n) == <<"0","1","2","3","4","5","6","7","8","9">>[n + 1]

\* the identifiers of company e as the service spells them in its paths
ServedCik ==
    << [padded |-> <<"0","0","0","0","7","8","9","0","1","9">>, short |-> <<"7","8","9","0","1","9">>],
       [padded |-> <<"0","0","0","0","3","2","0","1","9","3">>, short |-> <<"3","2","0","1","9","3">>],
       [padded |-> <<"0","0","0","1","0","4","5","8","1","0">>, short |-> <<"1","0","4","5","8","1","0">>] >>

\* accession number of row k of company e, as listed and as used in paths
Accession(e, k) == <<"0","0","0",Digit(e),"-","2","4","-","0","0",Digit(k)>>

AccessionPath(e, k) == <<"0","0","0",Digit(e),"2","4","0","0",Digit(k)>>

TextNode(runs) == [kind |-> "text", s |-> runs]

Tag(name, attrs, contents) ==
    [kind |-> "tag", name |-> name, attrs |-> attrs, contents |-> contents]

NoAttrs == [id |-> <<>>]

\* 1500 characters of prose behind a script, an inline XBRL fact and a
\* hidden block
Doc1500 ==
    << Tag(<<"s","c","r","i","p","t">>, NoAttrs, <<TextNode(<<[c |-> "s", n |-> 40]>>)>>),
       Tag(<<"d","i","v">>, NoAttrs,
           << Tag(<<"i","x",":","n","o","n","n","u","m","e","r","i","c">>, NoAttrs, <<TextNode(<<[c |-> "7", n |-> 9]>>)>>),
              Tag(<<"p">>, NoAttrs,
                  <<TextNode(<<[c |-> "\n", n |-> 1], [c |-> "a", n |-> 700],
                               [c |-> " ", n |-> 3], [c |-> "b", n |-> 400]>>)>>) >>),
       Tag(<<"s","p","a","n">>, [style |-> <<"D","i","s","p","l","a","y",":"," ","N","o","n","e">>],
           <<TextNode(<<[c |-> "h", n |-> 2000]>>)>>),
       Tag(<<"p">>, NoAttrs, <<TextNode(<<[c |-> "c", n |-> 398]>>)>>) >>

\* exactly 1000 characters once whitespace is collapsed
Doc1000 ==
    << Tag(<<"p">>, NoAttrs,
           <<TextNode(<<[c |-> " ", n |-> 2], [c |-> "a", n |-> 600],
                        [c |-> "\t", n |-> 1], [c |-> "\n", n |-> 2],
                        [c |-> "b", n |-> 399], [c |-> " ", n |-> 1]>>)>>) >>

\* 999 characters of visible text, more than 1000 with the style element
Doc999 ==
    << Tag(<<"s","t","y","l","e">>, NoAttrs, <<TextNode(<<[c |-> "x", n |-> 500]>>)>>),
       Tag(<<"p">>, NoAttrs, <<TextNode(<<[c |-> "a", n |-> 500]>>)>>),
       Tag(<<"p">>, NoAttrs, <<TextNode(<<[c |-> "b", n |-> 498]>>)>>) >>

DocShort ==
    << Tag(<<"p">>, NoAttrs, <<TextNode(<<[c |-> "c", n |-> 12]>>)>>) >>

\* the manifests (directory.item of index.json) and the files behind them
ManifestPool ==
    << [items |-> << [name |-> <<"e","x","9","9","1","p","r","e","s","s","r","e","l","e","a","s","e",".","h","t","m">>,
                      type |-> <<"E","X","-","9","9",".","1">>, size |-> 5000],
                     [name |-> <<"c","o","v","e","r","p","a","g","e",".","h","t","m">>,
                      type |-> <<"E","X","-","9","9">>, size |-> 200] >>,
        docs  |-> << Doc1500, DocShort >>],
       [items |-> << [name |-> <<"f","o","r","m","8","k",".","h","t","m">>,
                      type |-> <<"8","-","K">>, size |-> 900],
                     [name |-> <<"P","r","e","s","s"," "," ","R","e","l","e","a","s","e"," ","Q","1",".","H","T","M">>,
                      type |-> <<"E","X","-","9","9",".","1">>, size |-> 4000],
                     [name |-> <<"c","h","a","r","t",".","j","p","g">>,
                      type |-> <<"G","R","A","P","H","I","C">>, size |-> 7000] >>,
        docs  |-> << DocShort, Doc1000, DocShort >>],
       [items |-> << [name |-> <<"r","e","p","o","r","t",".","p","d","f">>,
                      type |-> <<"E","X","-","9","9",".","1">>, size |-> 8000],
                     [name |-> <<"l","o","g","o",".","j","p","g">>,
                      type |-> <<"G","R","A","P","H","I","C">>, size |-> 300] >>,
        docs  |-> << Doc1500, DocShort >>],
       [items |-> << [name |-> <<"m","a","i","n","8","k",".","h","t","m">>,
                      type |-> <<"8","-","K">>, size |-> 900],
                     [name |-> <<"n","o","t","e","s",".","t","x","t">>, size |-> 100] >>,
        docs  |-> << Doc1500, DocShort >>],
       [items |-> << >>,
        docs  |-> << >>],
       [items |-> << [name |-> <<"a","_","e","x","9","9","-","1",".","h","t","m">>,
                      type |-> <<"E","X","-","9","9",".","1">>, size |-> 3000],
                     [name |-> <<"b","_","e","x","9","9","-","1",".","h","t","m">>,
                      type |-> <<"E","X","-","9","9",".","1">>, size |-> 3000] >>,
        docs  |-> << Doc999, Doc1500 >>] >>

\* the manifest of row k of company e
ManifestOf(e, k) == ManifestPool[((e + 3 * (k \div 2)) % Len(ManifestPool)) + 1]

\* the filings.recent arrays of company e
RecentOf(e) ==
    [filingDate         |-> [k \in 1..MaxFilings |-> 100 + ((3 * k) % 7)],
     acceptanceDateTime |-> [k \in 1..MaxFilings |-> 10 + k],
     form               |-> [k \in 1..MaxFilings |->
                                IF k = 2 THEN "10-Q" ELSE "8-K"],
     accessionNumber    |-> [k \in 1..MaxFilings |-> Accession(e, k)]]

JsonBody(data) == [kind |-> "json", data |-> data, doc |-> <<>>]

HtmlBody(doc) == [kind |-> "html", data |-> <<>>, doc |-> doc]

\* the body of an error answer
ErrorPage == HtmlBody(<<TextNode(<<[c |-> "E", n |-> 5]>>)>>)

\* the JSON document {}
EmptyJson == JsonBody(<<>>)

\* the bodies an error answer can carry: a JSON document without the
\* expected keys, or an error page
ErrorBodies == <<EmptyJson, ErrorPage>>

\* the bodies a 200 answer to url can carry: the resource stored at url if
\* there is one, an error page, and for a JSON resource the document {}
ServedBodies(url) ==
    LET subs  == {e \in 1..Len(ServedCik) :
                     /\ url.host = "data.sec.gov"
                     /\ url.dir = "submissions"
                     /\ url.cik = <<"C","I","K">> \o ServedCik[e].padded
                     /\ url.acc = <<>>
                     /\ url.file = <<".","j","s","o","n">>}
        dirs  == {ek \in (1..Len(ServedCik)) \X (1..MaxFilings) :
                     /\ url.host = "www.sec.gov"
                     /\ url.dir = "Archives/edgar/data"
                     /\ url.cik = ServedCik[ek[1]].short
                     /\ url.acc = AccessionPath(ek[1], ek[2])}
        stored ==
            IF subs # {}
            THEN LET e == CHOOSE e \in subs : TRUE
                 IN  <<JsonBody([filings |-> [recent |-> RecentOf(e)]]), EmptyJson>>
            ELSE IF dirs = {} THEN <<>>
            ELSE LET ek == CHOOSE ek \in dirs : TRUE
                     m  == ManifestOf(ek[1], ek[2])
                     fs == {j \in 1..Len(m.items) : m.items[j].name = url.file}
                 IN  IF url.file = IndexJson
                     THEN <<JsonBody([directory |-> [item |-> m.items]]), EmptyJson>>
                     ELSE IF fs = {} THEN <<>>
                     ELSE <<HtmlBody(m.docs[CHOOSE j \in fs : TRUE])>>
    IN  stored \o <<ErrorPage>>

\* ------------------------------------------------------------------------
\* State
\* ------------------------------------------------------------------------

VARIABLES
    pc,         \* position of the main script
    eidx,       \* index in aziende_cik of the company of the outer loop
    df_8k,      \* the filings of that company still to scan, newest first
    fidx,       \* index in df_8k of the filing of the inner loop
    found,      \* press releases found for that company
    rows,       \* the accumulated output rows
    csv,        \* SEC_8K_PressReleases.csv: None until written, then the rows
    gw,         \* the frame of get_with_retry: pc, url, i, r, last, ret
    dl,         \* the locals of download_best_press_release; score is the
                \* value of score_item(best) tested against the threshold
    exc,        \* the uncaught exception that ended the script, or None
    sent,       \* the requests of the current get_with_retry call, each
                \* [url, outcome]: the status received, or 0 if it raised
    prior,      \* the URLs requested earlier in the same download call
    lastEvent   \* the last sleep or request of the process

vars == <<pc, eidx, df_8k, fidx, found, rows, csv, gw, dl, exc,
          sent, prior, lastEvent>>

NoResponse == [status |-> 0, attempt |-> 0, body |-> ErrorPage]

IdleFrame ==
    [pc |-> "idle", url |-> ArchiveUrl(<<>>, <<>>, <<>>), i |-> 0,
     r |-> NoResponse, last |-> NoResponse, ret |-> NoResponse]

NoDownload ==
    [cik_short |-> <<>>, accession_clean |-> <<>>, items |-> <<>>,
     best |-> None, score |-> 0, file_url |-> None, text |-> <<>>,
     pr |-> None]

Init ==
    /\ pc = "entity"
    /\ eidx = 1
    /\ df_8k = <<>>
    /\ fidx = 1
    /\ found = 0
    /\ rows = <<>>
    /\ csv = None
    /\ gw = IdleFrame
    /\ dl = NoDownload
    /\ exc = None
    /\ sent = <<>>
    /\ prior = <<>>
    /\ lastEvent = [kind |-> "start", ms |-> 0]

\* ------------------------------------------------------------------------
\* get_with_retry
\* ------------------------------------------------------------------------

\* the statuses a response can carry
Statuses == {200, 404, 429, 500, 503}

\* variant: every error status is retried
RetryableAnyError(status) == status >= 400

\* the test that makes get_with_retry try again
Retryable(status) == status = 429 \/ status >= 500

\* the frame on entry: last = None and the loop about to start
CallGetWithRetry(url) ==
    [pc |-> "loop", url |-> url, i |-> 0,
     r |-> NoResponse, last |-> NoResponse, ret |-> NoResponse]

\* variant: the loop written  range(tries + 1)
GwLoopOneMore ==
    /\ gw.pc = "loop"
    /\ gw' = IF gw.i <= tries
             THEN [gw EXCEPT !.pc = "sleep"]
             ELSE [gw EXCEPT !.pc = "returned", !.ret = gw.last]
    /\ UNCHANGED <<pc, eidx, df_8k, fidx, found, rows, csv, dl, exc,
                   sent, prior, lastEvent>>

\* variant: last is never assigned, the exhausted loop returns None
GwLoopReturnsNone ==
    /\ gw.pc = "loop"
    /\ gw' = IF gw.i < tries
             THEN [gw EXCEPT !.pc = "sleep"]
             ELSE [gw EXCEPT !.pc = "returned", !.ret = NoResponse]
    /\ UNCHANGED <<pc, eidx, df_8k, fidx, found, rows, csv, dl, exc,
                   sent, prior, lastEvent>>

\* for i in range(tries): enter the body, or fall out to  return last
GwLoop ==
    /\ gw.pc = "loop"
    /\ gw' = IF gw.i < tries
             THEN [gw EXCEPT !.pc = "sleep"]
             ELSE [gw EXCEPT !.pc = "returned", !.ret = gw.last]
    /\ UNCHANGED <<pc, eidx, df_8k, fidx, found, rows, csv, dl, exc,
                   sent, prior, lastEvent>>

\* variant: sleep() called once before the loop, not in every iteration
GwSleepFirstOnly ==
    /\ gw.pc = "sleep"
    /\ gw' = [gw EXCEPT !.pc = "get"]
    /\ lastEvent' = IF gw.i = 0 THEN [kind |-> "pace", ms |-> SLEEP_SEC]
                    ELSE lastEvent
    /\ UNCHANGED <<pc, eidx, df_8k, fidx, found, rows, csv, dl, exc,
                   sent, prior>>

\* sleep(): the pacing delay
GwSleep ==
    /\ gw.pc = "sleep"
    /\ gw' = [gw EXCEPT !.pc = "get"]
    /\ lastEvent' = [kind |-> "pace", ms |-> SLEEP_SEC]
    /\ UNCHANGED <<pc, eidx, df_8k, fidx, found, rows, csv, dl, exc,
                   sent, prior>>

\* r = session.get(url, timeout=timeout); last = r  -- a response arrives
GwGetResponse ==
    /\ gw.pc = "get"
    /\ \E status \in Statuses :
         LET bodies == IF status = 200 THEN ServedBodies(gw.url)
                       ELSE ErrorBodies
         IN  \E b \in 1..Len(bodies) :
               LET resp == [status |-> status, attempt |-> Len(sent) + 1,
                            body |-> bodies[b]]
               IN  /\ gw' = [gw EXCEPT !.pc = "check", !.r = resp, !.last = resp]
               /\ sent' = Append(sent, [url |-> gw.url, outcome |-> status])
    /\ lastEvent' = [kind |-> "get", ms |-> 0]
    /\ UNCHANGED <<pc, eidx, df_8k, fidx, found, rows, csv, dl, exc, prior>>

\* r = session.get(url, timeout=timeout) raises: no connection, or timeout
GwGetRaises ==
    /\ gw.pc = "get"
    /\ gw' = [gw EXCEPT !.pc = "raised"]
    /\ sent' = Append(sent, [url |-> gw.url, outcome |-> 0])
    /\ lastEvent' = [kind |-> "get", ms |-> 0]
    /\ UNCHANGED <<pc, eidx, df_8k, fidx, found, rows, csv, dl, exc, prior>>

\* the two status tests: back off and continue, or  return r
GwCheck ==
    /\ gw.pc = "check"
    /\ gw' = IF Retryable(gw.r.status)
             THEN [gw EXCEPT !.pc = "backoff"]
             ELSE [gw EXCEPT !.pc = "returned", !.ret = gw.r]
    /\ UNCHANGED <<pc, eidx, df_8k, fidx, found, rows, csv, dl, exc,
                   sent, prior, lastEvent>>

\* variant: the same delay after every attempt
GwBackoffConstant ==
    /\ gw.pc = "backoff"
    /\ gw' = [gw EXCEPT !.pc = "loop", !.i = gw.i + 1]
    /\ lastEvent' = [kind |-> "backoff", ms |-> 1000]
    /\ UNCHANGED <<pc, eidx, df_8k, fidx, found, rows, csv, dl, exc,
                   sent, prior>>

\* time.sleep(1.0 + i * 1.5); continue
GwBackoff ==
    /\ gw.pc = "backoff"
    /\ gw' = [gw EXCEPT !.pc = "loop", !.i = gw.i + 1]
    /\ lastEvent' = [kind |-> "backoff", ms |-> 1000 + gw.i * 1500]
    /\ UNCHANGED <<pc, eidx, df_8k, fidx, found, rows, csv, dl, exc,
                   sent, prior>>

\* get_with_retry has returned or raised
GwDone == gw.pc \in {"returned", "raised"}

\* variant: get_json without r.raise_for_status()
get_jsonNoStatusCheck ==
    IF gw.pc = "raised" THEN [raised |-> TRUE, data |-> <<>>]
    ELSE IF gw.ret.body.kind # "json" THEN [raised |-> TRUE, data |-> <<>>]
    ELSE [raised |-> FALSE, data |-> gw.ret.body.data]

\* get_json applied to the finished call: raise_for_status, then r.json()
get_json ==
    IF gw.pc = "raised" THEN [raised |-> TRUE, data |-> <<>>]
    ELSE IF gw.ret.status >= 400 /\ gw.ret.status < 600
         THEN [raised |-> TRUE, data |-> <<>>]
    ELSE IF gw.ret.body.kind # "json" THEN [raised |-> TRUE, data |-> <<>>]
    ELSE [raised |-> FALSE, data |-> gw.ret.body.data]

\* variant: list_accession_files without its try/except
list_accession_filesNoExcept ==
    IF get_json.raised
    THEN [raised |-> TRUE, items |-> <<>>]
    ELSE [raised |-> FALSE,
          items  |-> DictGet(DictGet(get_json.data, "directory", <<>>),
                             "item", <<>>)]

\* list_accession_files applied to the finished manifest call: the items of
\* the manifest, or the empty list when get_json raised (except Exception);
\* raised tells whether an exception leaves the function
list_accession_files ==
    IF get_json.raised
    THEN [raised |-> FALSE, items |-> <<>>]
    ELSE [raised |-> FALSE,
          items  |-> DictGet(DictGet(get_json.data, "directory", <<>>),
                             "item", <<>>)]

\* ------------------------------------------------------------------------
\* The main script
\* ------------------------------------------------------------------------

\* pd.DataFrame of the four recent arrays, one record per row
DataFrame(recent) ==
    LET form == DictGet(recent, "form", <<>>)
    IN  [k \in 1..Len(form) |->
            [Data      |-> DictGet(recent, "filingDate", <<>>)[k],
             Ora       |-> DictGet(recent, "acceptanceDateTime", <<>>)[k],
             Tipo      |-> form[k],
             Accession |-> DictGet(recent, "accessionNumber", <<>>)[k]]]

\* sort_values(["Data", "Ora"], ascending=False)
SortDescending(df) ==
    LET Before(a, b) == a.Data > b.Data \/ (a.Data = b.Data /\ a.Ora > b.Ora)
        Same(a, b)   == a.Data = b.Data /\ a.Ora = b.Ora
        Rank(k) == 1 + Cardinality({j \in 1..Len(df) :
                           \/ Before(df[j], df[k])
                           \/ (Same(df[j], df[k]) /\ j < k)})
    IN  [p \in 1..Len(df) |-> df[CHOOSE k \in 1..Len(df) : Rank(k) = p]]

\* df[df["Tipo"] == "8-K"].sort_values(...).head(N_8K_PER_COMPANY)
Select8K(df) ==
    LET only   == SelectSeq(df, LAMBDA row : row.Tipo = "8-K")
        sorted == SortDescending(only)
    IN  SubSeq(sorted, 1, IF Len(sorted) < N_8K_PER_COMPANY
                          THEN Len(sorted) ELSE N_8K_PER_COMPANY)

\* an exception reaches the top level: the script ends there
Crash(site) ==
    /\ pc' = "crashed"
    /\ exc' = [site |-> site]
    /\ UNCHANGED <<eidx, df_8k, fidx, found, rows, csv, gw, dl, sent, prior,
                   lastEvent>>

\* for azienda, cik in aziende_cik.items(): data = get_json(sub_url) begins,
\* or the loop is over
MainEntity ==
    /\ pc = "entity"
    /\ IF eidx <= Len(aziende_cik)
       THEN /\ pc' = "list"
            /\ gw' = CallGetWithRetry(SubmissionsUrl(aziende_cik[eidx].cik))
       ELSE /\ pc' = "write"
            /\ gw' = gw
    /\ sent' = <<>>
    /\ prior' = <<>>
    /\ UNCHANGED <<eidx, df_8k, fidx, found, rows, csv, dl, exc, lastEvent>>

\* data = get_json(sub_url) ends; df, df_8k and found = 0
MainFilingList ==
    /\ pc = "list"
    /\ GwDone
    /\ IF get_json.raised
       THEN Crash("list")
       ELSE LET data   == get_json.data
                recent == DictGet(DictGet(data, "filings", <<>>), "recent", <<>>)
            IN  /\ df_8k' = Select8K(DataFrame(recent))
                /\ fidx' = 1
                /\ found' = 0
                /\ pc' = "filing"
                /\ gw' = IdleFrame
                /\ sent' = <<>>
                /\ UNCHANGED <<eidx, rows, csv, dl, exc, prior, lastEvent>>

\* for _, r in df_8k.iterrows(): download_best_press_release(cik, accession)
\* begins with the manifest request of list_accession_files, or the loop is
\* over and the outer loop advances
MainFiling ==
    /\ pc = "filing"
    /\ IF fidx <= Len(df_8k)
       THEN LET cik_short       == StrInt(aziende_cik[eidx].cik)
                accession_clean == RemoveHyphens(df_8k[fidx].Accession)
            IN  /\ pc' = "manifest"
                /\ dl' = [NoDownload EXCEPT !.cik_short = cik_short,
                                            !.accession_clean = accession_clean]
                /\ gw' = CallGetWithRetry(
                             ArchiveUrl(cik_short, accession_clean, IndexJson))
                /\ eidx' = eidx
       ELSE /\ pc' = "entity"
            /\ eidx' = eidx + 1
            /\ dl' = dl
            /\ gw' = gw
    /\ sent' = <<>>
    /\ prior' = <<>>
    /\ UNCHANGED <<df_8k, fidx, found, rows, csv, exc, lastEvent>>

\* the selection stage of download_best_press_release on a manifest: the
\* filter, best = max(candidates, key=score_item) and the score test
Selection(items) ==
    LET candidates == SelectSeq(items,
                          LAMBDA it : is_text_file(DictGet(it, "name", <<>>)))
    IN  IF items = <<>> \/ candidates = <<>>
        THEN [best |-> None, score |-> 0, accepted |-> FALSE]
        ELSE [best     |-> MaxByScore(candidates),
              score    |-> score_item(MaxByScore(candidates)),
              accepted |-> ~(score_item(MaxByScore(candidates)) < MinScore)]

\* variant: the score test is missing, any textual winner is fetched
DlManifestNoScoreTest ==
    /\ pc = "manifest"
    /\ GwDone
    /\ LET items      == list_accession_files.items
           best       == Selection(items).best
           file_url   == ArchiveUrl(dl.cik_short, dl.accession_clean, best.name)
       IN  IF list_accession_files.raised
           THEN /\ Crash("manifest")
           ELSE IF best = None
           THEN /\ dl' = [dl EXCEPT !.items = items, !.pr = None,
                                    !.best = best,
                                    !.score = Selection(items).score]
                /\ pc' = "dl_return"
                /\ UNCHANGED <<eidx, df_8k, fidx, found, rows, csv, gw, exc,
                               sent, prior, lastEvent>>
           ELSE /\ dl' = [dl EXCEPT !.items = items, !.best = best,
                                    !.score = Selection(items).score,
                                    !.file_url = file_url]
                /\ pc' = "content"
                /\ gw' = CallGetWithRetry(file_url)
                /\ prior' = [k \in 1..Len(sent) |-> sent[k].url]
                /\ sent' = <<>>
                /\ UNCHANGED <<eidx, df_8k, fidx, found, rows, csv, exc,
                               lastEvent>>

\* list_accession_files returns; then the filter, the choice of best and
\* the score test; the content request begins if a winner is accepted.
\* download_best_press_release catches nothing: an exception leaving
\* list_accession_files would leave it too
DlManifest ==
    /\ pc = "manifest"
    /\ GwDone
    /\ LET items      == list_accession_files.items
           best       == Selection(items).best
           file_url   == ArchiveUrl(dl.cik_short, dl.accession_clean, best.name)
       IN  IF list_accession_files.raised
           THEN /\ Crash("manifest")
           ELSE IF ~Selection(items).accepted
           THEN /\ dl' = [dl EXCEPT !.items = items, !.pr = None,
                                    !.best = best,
                                    !.score = Selection(items).score]
                /\ pc' = "dl_return"
                /\ UNCHANGED <<eidx, df_8k, fidx, found, rows, csv, gw, exc,
                               sent, prior, lastEvent>>
           ELSE /\ dl' = [dl EXCEPT !.items = items, !.best = best,
                                    !.score = Selection(items).score,
                                    !.file_url = file_url]
                /\ pc' = "content"
                /\ gw' = CallGetWithRetry(file_url)
                /\ prior' = [k \in 1..Len(sent) |-> sent[k].url]
                /\ sent' = <<>>
                /\ UNCHANGED <<eidx, df_8k, fidx, found, rows, csv, exc,
                               lastEvent>>

\* variant: the record names the first entry of the manifest
DlContentFirstEntry ==
    /\ pc = "content"
    /\ GwDone
    /\ IF gw.pc = "raised"
       THEN Crash("content")
       ELSE LET text == clean_html_to_text(gw.ret.body.doc)
            IN  /\ dl' = IF gw.ret.status # 200
                         THEN [dl EXCEPT !.pr = None]
                         ELSE IF RunLen(text) < MinTextLen
                         THEN [dl EXCEPT !.text = text, !.pr = None]
                         ELSE [dl EXCEPT !.text = text,
                                  !.pr = [ExhibitFile |-> dl.items[1].name,
                                          ExhibitType |-> DictGet(dl.items[1], "type", <<>>),
                                          URL         |-> dl.file_url,
                                          Text        |-> text]]
                /\ pc' = "dl_return"
                /\ UNCHANGED <<eidx, df_8k, fidx, found, rows, csv, gw, exc,
                               sent, prior, lastEvent>>

\* r = get_with_retry(file_url) ends; the status test, clean_html_to_text,
\* the length test and the returned record
DlContent ==
    /\ pc = "content"
    /\ GwDone
    /\ IF gw.pc = "raised"
       THEN Crash("content")
       ELSE LET text == clean_html_to_text(gw.ret.body.doc)
            IN  /\ dl' = IF gw.ret.status # 200
                         THEN [dl EXCEPT !.pr = None]
                         ELSE IF RunLen(text) < MinTextLen
                         THEN [dl EXCEPT !.text = text, !.pr = None]
                         ELSE [dl EXCEPT !.text = text,
                                  !.pr = [ExhibitFile |-> dl.best.name,
                                          ExhibitType |-> DictGet(dl.best, "type", <<>>),
                                          URL         |-> dl.file_url,
                                          Text        |-> text]]
                /\ pc' = "dl_return"
                /\ UNCHANGED <<eidx, df_8k, fidx, found, rows, csv, gw, exc,
                               sent, prior, lastEvent>>

\* pr = download_best_press_release(...) is back in the loop body:
\* continue on None, else rows.append(...) and found += 1
MainRow ==
    /\ pc = "dl_return"
    /\ IF dl.pr = None
       THEN UNCHANGED <<rows, found>>
       ELSE /\ rows' = Append(rows,
                  [Azienda            |-> aziende_cik[eidx].azienda,
                   CIK                |-> aziende_cik[eidx].cik,
                   FilingDate         |-> df_8k[fidx].Data,
                   AcceptanceDateTime |-> df_8k[fidx].Ora,
                   Accession          |-> df_8k[fidx].Accession,
                   ExhibitType        |-> dl.pr.ExhibitType,
                   ExhibitFile        |-> dl.pr.ExhibitFile,
                   URL                |-> dl.pr.URL,
                   Text               |-> dl.pr.Text])
            /\ found' = found + 1
    /\ fidx' = fidx + 1
    /\ pc' = "filing"
    /\ dl' = NoDownload
    /\ gw' = IdleFrame
    /\ sent' = <<>>
    /\ prior' = <<>>
    /\ UNCHANGED <<eidx, df_8k, csv, exc, lastEvent>>

\* df_out = pd.DataFrame(rows); df_out.to_csv(...)
MainWrite ==
    /\ pc = "write"
    /\ csv' = [rows |-> rows]
    /\ pc' = "done"
    /\ UNCHANGED <<eidx, df_8k, fidx, found, rows, gw, dl, exc, sent, prior,
                   lastEvent>>

Next ==
    \/ GwLoop
    \/ GwSleep
    \/ GwGetResponse
    \/ GwGetRaises
    \/ GwCheck
    \/ GwBackoff
    \/ MainEntity
    \/ MainFilingList
    \/ MainFiling
    \/ DlManifest
    \/ DlContent
    \/ MainRow
    \/ MainWrite

Spec == Init /\ [][Next]_vars

\* ------------------------------------------------------------------------
\* Properties of the fetch client
\* ------------------------------------------------------------------------

\* C1: a call of get_with_retry issues at least one and at most 4 requests,
\* and a further request follows a response only if that response's status
\* was 429 or >= 500 and fewer than 4 requests have been made.
C1_RequestBudget ==
    /\ [](Len(sent) <= 4 /\ (gw.pc = "returned" => Len(sent) >= 1))
    /\ [][(Len(sent') = Len(sent) + 1 /\ Len(sent) >= 1) =>
            /\ \/ sent[Len(sent)].outcome = 429
               \/ sent[Len(sent)].outcome >= 500
            /\ Len(sent) < 4]_vars

\* a call that used the whole budget and succeeded on the fourth request
C1_Witness ==
    /\ gw.pc = "returned"
    /\ Len(sent) = 4
    /\ gw.ret.status = 200

\* C2: the first response whose status is neither 429 nor >= 500 is the
\* value returned, with no request and no backoff after it.
C2_FirstFinalResponseReturned ==
    \A k \in 1..Len(sent) :
        (sent[k].outcome # 0 /\ sent[k].outcome # 429 /\ sent[k].outcome < 500) =>
            /\ k = Len(sent)
            /\ gw.pc \in {"check", "returned"}
            /\ lastEvent.kind = "get"
            /\ gw.pc = "returned" =>
                   /\ gw.ret.attempt = k
                   /\ gw.ret.status = sent[k].outcome

\* the statuses 429, 429, 200: the third response is returned after three
\* requests
C2_Witness ==
    /\ gw.pc = "returned"
    /\ Len(sent) = 3
    /\ sent[1].outcome = 429 /\ sent[2].outcome = 429 /\ sent[3].outcome = 200
    /\ gw.ret.attempt = 3
    /\ gw.ret.status = 200

\* C3: when all 4 attempts receive a retryable status the call returns the
\* response of the fourth attempt and does not raise.
C3_ExhaustedReturnsLast ==
    (/\ Len(sent) = 4
     /\ \A k \in 1..4 : sent[k].outcome = 429 \/ sent[k].outcome >= 500) =>
        /\ gw.pc \in {"check", "backoff", "loop", "returned"}
        /\ gw.pc = "returned" =>
               /\ gw.ret.attempt = 4
               /\ gw.ret.status = sent[4].outcome

\* the statuses 500, 500, 500, 500: the fourth response is returned
C3_Witness ==
    /\ gw.pc = "returned"
    /\ Len(sent) = 4
    /\ \A k \in 1..4 : sent[k].outcome = 500
    /\ gw.ret.attempt = 4
    /\ gw.ret.status = 500

\* C4: a connection-level failure of a request is retried inside the client,
\* which never raises to its caller.
C4_ClientNeverRaises == gw.pc # "raised"

\* C5: every outbound request is immediately preceded by the pacing delay
\* of SLEEP_SEC.
C5_PacedRequests ==
    [][Len(sent') = Len(sent) + 1 =>
           lastEvent = [kind |-> "pace", ms |-> 250]]_vars

\* the third request of a content fetch has been sent
C5_Witness ==
    /\ pc = "content"
    /\ gw.pc = "check"
    /\ Len(sent) = 3
    /\ lastEvent.kind = "get"

\* ------------------------------------------------------------------------
\* Properties of fault isolation
\* ------------------------------------------------------------------------

\* C6: a fault while processing one filing never aborts the per-entity
\* loop: the remaining filings of the entity are still processed.
C6_FilingFaultIsolated ==
    (pc = "crashed" /\ exc.site \in {"manifest", "content"}) =>
        fidx >= Len(df_8k)

\* C7: a failure to obtain one entity's filing list aborts only that entity:
\* the other entities are processed and the run completes, writing the rows.
C7_EntityFaultIsolated ==
    (pc \in {"done", "crashed"} /\ exc # None /\ exc.site = "list") =>
        /\ eidx > Len(aziende_cik)
        /\ csv # None

\* ------------------------------------------------------------------------
\* Properties of the filing processor
\* ------------------------------------------------------------------------

\* C8: download_best_press_release returns a record only if the selected
\* attachment scores at least 20, the content fetch returned status 200 and
\* the extracted text has at least 1000 characters; otherwise it returns None.
C8_RecordOnlyIfValidated ==
    (pc = "dl_return" /\ dl.pr # None) =>
        /\ dl.best # None
        /\ score_item(dl.best) >= 20
        /\ gw.pc = "returned"
        /\ gw.url = dl.file_url
        /\ gw.ret.status = 200
        /\ RunLen(dl.pr.Text) >= 1000

\* a record is returned for the first filing that yields one
C8_Witness ==
    /\ pc = "dl_return"
    /\ dl.pr # None
    /\ rows = <<>>

\* C9: with a winner scoring >= 20 and a successful content fetch, extracted
\* text of exactly 999 characters is rejected and extracted text of 1000 or
\* more characters is accepted.
C9_LengthBoundary ==
    (/\ pc = "dl_return"
     /\ dl.best # None
     /\ score_item(dl.best) >= 20
     /\ gw.pc = "returned"
     /\ gw.ret.status = 200) =>
        LET text == clean_html_to_text(gw.ret.body.doc)
        IN  /\ RunLen(text) = 999 => dl.pr = None
            /\ RunLen(text) >= 1000 => (dl.pr # None /\ dl.pr.Text = text)

\* a text of 999 characters has just been rejected, after a text of exactly
\* 1000 characters was accepted
C9_Witness ==
    /\ pc = "dl_return"
    /\ gw.pc = "returned"
    /\ gw.ret.status = 200
    /\ RunLen(dl.text) = 999
    /\ dl.pr = None
    /\ \E k \in 1..Len(rows) : RunLen(rows[k].Text) = 1000

\* C10: if the manifest fetch fails in any way, or the manifest has no
\* items, download_best_press_release returns None without raising and
\* without issuing a content request.
C10_ManifestFailureYieldsNone ==
    [][(/\ pc = "manifest"
        /\ gw.pc \in {"returned", "raised"}
        /\ \/ gw.pc = "raised"
           \/ gw.ret.status # 200
           \/ gw.ret.body.kind # "json"
           \/ DictGet(DictGet(gw.ret.body.data, "directory", <<>>),
                      "item", <<>>) = <<>>) =>
           /\ pc' = "dl_return"
           /\ dl'.pr = None
           /\ exc' = None
           /\ gw' = gw
           /\ sent' = sent]_vars

\* the manifest request raised and the call returned None
C10_Witness ==
    /\ pc = "dl_return"
    /\ gw.pc = "raised"
    /\ dl.pr = None
    /\ dl.items = <<>>

\* ------------------------------------------------------------------------
\* Properties of get_json
\* ------------------------------------------------------------------------

\* C11: get_json raises to its caller, with no further request, whenever
\* the response returned by get_with_retry has a 4xx or 5xx status or a body
\* that is not valid JSON; otherwise it returns the decoded body.  The main
\* script does not catch the exception; list_accession_files turns it into
\* an empty list.
C11_GetJsonRaisesOrDecodes ==
    [][(gw.pc = "returned" /\ pc \in {"list", "manifest"}) =>
         LET bad == \/ (gw.ret.status >= 400 /\ gw.ret.status <= 599)
                    \/ gw.ret.body.kind # "json"
         IN  /\ lastEvent' = lastEvent
             /\ Len(sent') <= Len(sent)
             /\ (pc = "list" /\ bad) =>
                    (pc' = "crashed" /\ exc' = [site |-> "list"])
             /\ (pc = "list" /\ ~bad) =>
                    /\ pc' = "filing"
                    /\ df_8k' = Select8K(DataFrame(
                           DictGet(DictGet(gw.ret.body.data, "filings", <<>>),
                                   "recent", <<>>)))
             /\ (pc = "manifest" /\ bad) => dl'.items = <<>>
             /\ (pc = "manifest" /\ ~bad) =>
                    dl'.items = DictGet(DictGet(gw.ret.body.data,
                                                "directory", <<>>), "item", <<>>)
      ]_vars

\* the filing list was answered 503 on all four attempts and get_json raised
C11_Witness ==
    /\ pc = "crashed"
    /\ exc = [site |-> "list"]
    /\ gw.pc = "returned"
    /\ gw.ret.status = 503
    /\ gw.ret.attempt = 4
    /\ gw.ret.body.kind = "json"

\* ------------------------------------------------------------------------
\* Properties of the attachment selection
\* ------------------------------------------------------------------------

\* C12: the attachment selected by download_best_press_release, the file it
\* requests and the ExhibitFile of a returned record have a name ending,
\* case-insensitively, in .htm, .html or .txt; when no manifest entry has
\* such a name nothing is selected and None is returned.
C12_OnlyTextFilesSelected ==
    LET Textual(name) ==
            \/ EndsWith(Lower(name), <<".","h","t","m">>)
            \/ EndsWith(Lower(name), <<".","h","t","m","l">>)
            \/ EndsWith(Lower(name), <<".","t","x","t">>)
    IN  /\ dl.best # None => Textual(dl.best.name)
        /\ pc = "content" => \A k \in 1..Len(sent) : Textual(sent[k].url.file)
        /\ (pc = "dl_return" /\ dl.pr # None) => Textual(dl.pr.ExhibitFile)
        /\ \A k \in 1..Len(rows) : Textual(rows[k].ExhibitFile)
        /\ (pc \in {"content", "dl_return"}
            /\ \A j \in 1..Len(dl.items) : ~Textual(dl.items[j].name)) =>
               /\ pc = "dl_return"
               /\ dl.best = None
               /\ dl.pr = None

\* a manifest of a .pdf and a .jpg has just yielded None, after an exhibit
\* with the upper-case extension .HTM was selected and recorded
C12_Witness ==
    /\ pc = "dl_return"
    /\ Len(dl.items) = 2
    /\ \A j \in 1..Len(dl.items) :
           dl.items[j].name \in { <<"r","e","p","o","r","t",".","p","d","f">>,
                                  <<"l","o","g","o",".","j","p","g">> }
    /\ dl.pr = None
    /\ \E k \in 1..Len(rows) :
           EndsWith(rows[k].ExhibitFile, <<".","H","T","M">>)

\* C13: the selection picks, among the eligible manifest entries, one of
\* maximal score_item, and among several of maximal score the one that
\* comes first in manifest order.
C13_FirstMaximumSelected ==
    dl.best # None =>
        LET eligible == {j \in 1..Len(dl.items) :
                            \/ EndsWith(Lower(dl.items[j].name), <<".","h","t","m">>)
                            \/ EndsWith(Lower(dl.items[j].name), <<".","h","t","m","l">>)
                            \/ EndsWith(Lower(dl.items[j].name), <<".","t","x","t">>)}
        IN  \E j \in eligible :
               /\ dl.items[j] = dl.best
               /\ \A i \in eligible :
                      score_item(dl.items[i]) <= score_item(dl.items[j])
               /\ \A i \in eligible :
                      i < j => score_item(dl.items[i]) < score_item(dl.items[j])

\* two exhibits tie at the maximal score and the first one is being fetched
C13_Witness ==
    /\ pc = "content"
    /\ Len(dl.items) = 2
    /\ dl.items[1] # dl.items[2]
    /\ score_item(dl.items[1]) = score_item(dl.items[2])
    /\ dl.best = dl.items[1]
    /\ Len(sent) >= 1

\* ------------------------------------------------------------------------
\* The selection stage on its own, over every manifest of up to MaxItems
\* descriptors
\* ------------------------------------------------------------------------

\* the descriptors the manifests are built from
Descriptors ==
    << ManifestPool[1].items[1], ManifestPool[1].items[2],
       ManifestPool[3].items[1], ManifestPool[4].items[1],
       ManifestPool[6].items[1], ManifestPool[6].items[2] >>

\* download_best_press_release is entered with some manifest in items
InitSelect ==
    /\ pc = "select"
    /\ \E n \in 0..MaxItems :
         \E f \in [1..n -> 1..Len(Descriptors)] :
            dl = [NoDownload EXCEPT !.items = [k \in 1..n |-> Descriptors[f[k]]]]
    /\ eidx = 1
    /\ df_8k = <<>>
    /\ fidx = 1
    /\ found = 0
    /\ rows = <<>>
    /\ csv = None
    /\ gw = IdleFrame
    /\ exc = None
    /\ sent = <<>>
    /\ prior = <<>>
    /\ lastEvent = [kind |-> "start", ms |-> 0]

\* the selection stage runs on items
SelectApply ==
    /\ pc = "select"
    /\ dl' = [dl EXCEPT !.best = Selection(dl.items).best,
                        !.score = Selection(dl.items).score]
    /\ pc' = IF Selection(dl.items).accepted THEN "selected" ELSE "rejected"
    /\ UNCHANGED <<eidx, df_8k, fidx, found, rows, csv, gw, exc, sent, prior,
                   lastEvent>>

\* the same manifest arrives with two neighbouring entries exchanged and
\* the selection stage runs again
SelectReordered ==
    /\ pc \in {"selected", "rejected"}
    /\ \E i \in 1..(Len(dl.items) - 1) :
         LET items == [k \in 1..Len(dl.items) |->
                          IF k = i THEN dl.items[i + 1]
                          ELSE IF k = i + 1 THEN dl.items[i]
                          ELSE dl.items[k]]
         IN  /\ items # dl.items
             /\ dl' = [dl EXCEPT !.items = items,
                                 !.best = Selection(items).best,
                                 !.score = Selection(items).score]
             /\ pc' = IF Selection(items).accepted THEN "selected"
                      ELSE "rejected"
    /\ UNCHANGED <<eidx, df_8k, fidx, found, rows, csv, gw, exc, sent, prior,
                   lastEvent>>

NextSelect ==
    \/ SelectApply
    \/ SelectReordered

SpecSelect == InitSelect /\ [][NextSelect]_vars

\* C14: reordering a manifest in which exactly one eligible entry attains
\* the maximal score does not change the winner, nor whether it is accepted.
C14_OrderInsensitiveWhenUnique ==
    [][(/\ pc \in {"selected", "rejected"}
        /\ \E p \in Permutations(1..Len(dl.items)) :
              dl'.items = [k \in 1..Len(dl.items) |-> dl.items[p[k]]]
        /\ LET eligible == {j \in 1..Len(dl.items) :
                  \/ EndsWith(Lower(dl.items[j].name), <<".","h","t","m">>)
                  \/ EndsWith(Lower(dl.items[j].name), <<".","h","t","m","l">>)
                  \/ EndsWith(Lower(dl.items[j].name), <<".","t","x","t">>)}
           IN  Cardinality({j \in eligible : \A i \in eligible :
                   score_item(dl.items[i]) <= score_item(dl.items[j])}) = 1) =>
           /\ dl'.best = dl.best
           /\ pc' = pc]_vars

\* a manifest of three entries whose unique best entry comes last
C14_Witness ==
    /\ pc = "selected"
    /\ Len(dl.items) = 3
    /\ dl.best = dl.items[3]
    /\ score_item(dl.items[1]) = 110
    /\ score_item(dl.items[2]) = 120
    /\ score_item(dl.items[3]) = 280

\* ------------------------------------------------------------------------
\* score_item on its own, over descriptors built from the names and types
\* below, each then offered to the selection stage as a manifest of one
\* ------------------------------------------------------------------------

ScoredNames ==
    << <<"e","x","9","9","1","p","r","e","s","s","r","e","l","e","a","s","e",".","h","t","m">>,
       <<"c","o","v","e","r","p","a","g","e",".","h","t","m">>,
       <<"r","e","p","o","r","t",".","p","d","f">>,
       <<"P","r","e","s","s"," "," ","R","e","l","e","a","s","e"," ","Q","1",".","H","T","M">>,
       <<"e","x","-","9","9","_","1"," ","e","a","r","n","i","n","g","s"," ","r","e","l","e","a","s","e",".","t","x","t">>,
       <<"a","_","e","x","9","9","-","1",".","h","t","m">>,
       <<"q","4"," ","p","r","e","s","s"," ","r","e","l","e","a","s","e"," ","c","o","n","f","e","r","e","n","c","e"," ","c","a","l","l",".","h","t","m","l">>,
       <<"n","e","w","s"," ","r","e","l","e","a","s","e"," ","9","9","0","1",".","j","p","g">>,
       <<"e","x","h","i","b","i","t","9","9",".","1",".","h","t","m">>,
       <<"P","r","e","p","a","r","e","d","\t","R","e","m","a","r","k","s"," ","i","n","v","e","s","t","o","r"," ","p","r","e","s","e","n","t","a","t","i","o","n",".","T","X","T">>,
       <<"n","o","t","e","s",".","t","x","t"," ">> >>

ScoredTypes ==
    << <<"E","X","-","9","9",".","1">>,
       <<"E","X","-","9","9">>,
       <<"E","X","-","9","9",".","0","1">>,
       <<"9","9",".","1">>,
       <<" ","E","x","-","9","9",".","1"," ">>,
       <<"8","-","K">>,
       <<"G","R","A","P","H","I","C">> >>

\* a manifest of one descriptor, with or without a type
InitScore ==
    /\ pc = "score"
    /\ \E n \in 1..Len(ScoredNames) :
         \/ \E t \in 1..Len(ScoredTypes) :
               dl = [NoDownload EXCEPT !.items =
                        <<[name |-> ScoredNames[n], type |-> ScoredTypes[t],
                           size |-> 1000]>>]
         \/ dl = [NoDownload EXCEPT !.items =
                     <<[name |-> ScoredNames[n], size |-> 1000]>>]
    /\ eidx = 1
    /\ df_8k = <<>>
    /\ fidx = 1
    /\ found = 0
    /\ rows = <<>>
    /\ csv = None
    /\ gw = IdleFrame
    /\ exc = None
    /\ sent = <<>>
    /\ prior = <<>>
    /\ lastEvent = [kind |-> "start", ms |-> 0]

\* score_item is applied to the descriptor
ScoreApply ==
    /\ pc = "score"
    /\ dl' = [dl EXCEPT !.score = score_item(dl.items[1])]
    /\ pc' = "scored"
    /\ UNCHANGED <<eidx, df_8k, fidx, found, rows, csv, gw, exc, sent, prior,
                   lastEvent>>

\* the selection stage runs on the manifest of that one descriptor
ScoreSelect ==
    /\ pc = "scored"
    /\ dl' = [dl EXCEPT !.best = Selection(dl.items).best]
    /\ pc' = IF Selection(dl.items).accepted THEN "selected" ELSE "rejected"
    /\ UNCHANGED <<eidx, df_8k, fidx, found, rows, csv, gw, exc, sent, prior,
                   lastEvent>>

NextScore ==
    \/ ScoreApply
    \/ ScoreSelect

SpecScore == InitScore /\ [][NextScore]_vars

\* C15: score_item is the sum of the applicable rows of the scoring table,
\* evaluated on the lower-cased, whitespace-normalized name and type:
\* +100 and +120 for the two type tests, +50 and +30 for the two file name
\* markers, +20 for each press keyword in the name, +10 for a textual file
\* name and -100 otherwise.
C15_ScoreIsTableSum ==
    pc \in {"scored", "selected", "rejected"} =>
        LET item == dl.items[1]
            name == Strip(CollapseWs(Lower(item.name)))
            typ  == IF "type" \in DOMAIN item
                    THEN Strip(CollapseWs(Lower(item.type))) ELSE <<>>
            Row(cond, points) == IF cond THEN points ELSE 0
        IN  dl.score =
              Row(\/ Contains(typ, <<"9","9",".","1">>)
                  \/ Contains(typ, <<"9","9",".","0","1">>)
                  \/ Contains(typ, <<"e","x","-","9","9">>), 100)
            + Row(\/ Contains(typ, <<"e","x","-","9","9",".","1">>)
                  \/ Contains(typ, <<"e","x","-","9","9",".","0","1">>), 120)
            + Row(\/ Contains(name, <<"e","x","9","9">>)
                  \/ Contains(name, <<"e","x","-","9","9">>), 50)
            + Row(\/ Contains(name, <<"9","9","_","1">>)
                  \/ Contains(name, <<"9","9","-","1">>)
                  \/ Contains(name, <<"9","9",".","1">>)
                  \/ Contains(name, <<"9","9","0","1">>), 30)
            + Row(Contains(name, <<"p","r","e","s","s"," ","r","e","l","e","a","s","e">>), 20)
            + Row(Contains(name, <<"e","a","r","n","i","n","g","s"," ","r","e","l","e","a","s","e">>), 20)
            + Row(Contains(name, <<"n","e","w","s"," ","r","e","l","e","a","s","e">>), 20)
            + Row(Contains(name, <<"c","o","n","f","e","r","e","n","c","e"," ","c","a","l","l">>), 20)
            + Row(Contains(name, <<"p","r","e","p","a","r","e","d"," ","r","e","m","a","r","k","s">>), 20)
            + Row(Contains(name, <<"i","n","v","e","s","t","o","r"," ","p","r","e","s","e","n","t","a","t","i","o","n">>), 20)
            + (IF \/ EndsWith(Lower(item.name), <<".","h","t","m">>)
                  \/ EndsWith(Lower(item.name), <<".","h","t","m","l">>)
                  \/ EndsWith(Lower(item.name), <<".","t","x","t">>)
               THEN 10 ELSE 0 - 100)

\* a descriptor on which every kind of row applies: both type tests, both
\* file name markers, a keyword and the textual bonus
C15_Witness ==
    /\ pc = "scored"
    /\ dl.items[1].name = <<"e","x","-","9","9","_","1"," ","e","a","r","n","i","n","g","s"," ","r","e","l","e","a","s","e",".","t","x","t">>
    /\ "type" \in DOMAIN dl.items[1]
    /\ dl.items[1].type = <<" ","E","x","-","9","9",".","1"," ">>
    /\ dl.score = 100 + 120 + 50 + 30 + 20 + 10

\* some scoring signal other than the textual bonus matches the descriptor
AnySignal(item) ==
    LET name == normalize(DictGet(item, "name", <<>>))
        typ  == normalize(DictGet(item, "type", <<>>))
    IN  \/ Contains(typ, <<"9","9",".","1">>)
        \/ Contains(typ, <<"9","9",".","0","1">>)
        \/ Contains(typ, <<"e","x","-","9","9">>)
        \/ Contains(name, <<"e","x","9","9">>)
        \/ Contains(name, <<"e","x","-","9","9">>)
        \/ Contains(name, <<"9","9","_","1">>)
        \/ Contains(name, <<"9","9","-","1">>)
        \/ Contains(name, <<"9","9",".","1">>)
        \/ Contains(name, <<"9","9","0","1">>)
        \/ \E k \in 1..Len(PRESS_KEYWORDS) : Contains(name, PRESS_KEYWORDS[k])

\* C20: a descriptor that passes the textual pre-filter scores at least 10
\* and never from 11 to 29; it reaches the acceptance threshold of 20
\* exactly when a signal other than the textual bonus matches, and a
\* manifest whose eligible entry matches no such signal yields no winner.
C20_ScoreGap ==
    (pc \in {"scored", "selected", "rejected"}
        /\ is_text_file(dl.items[1].name)) =>
        /\ dl.score >= 10
        /\ ~(dl.score \in 11..29)
        /\ (dl.score >= 20) <=> AnySignal(dl.items[1])
        /\ pc = "selected" => AnySignal(dl.items[1])
        /\ (pc = "rejected") => ~AnySignal(dl.items[1])
        /\ (pc \in {"selected", "rejected"} /\ ~AnySignal(dl.items[1]))
              => pc = "rejected"

\* a textual descriptor with no signal scores exactly 10 and is rejected
C20_Witness ==
    /\ pc = "rejected"
    /\ is_text_file(dl.items[1].name)
    /\ ~AnySignal(dl.items[1])
    /\ dl.score = 10
    /\ dl.best = dl.items[1]

\* C16: a record returned by download_best_press_release carries the name
\* and type of the maximum-score textual attachment of the manifest, the
\* URL built from the integer form of the entity identifier, the accession
\* identifier without hyphens and that file name, and the extraction of the
\* content fetched from exactly that URL; no other attachment is requested.
\* For the manifest [ex991pressrelease.htm / EX-99.1, coverpage.htm / EX-99]
\* with 1500 characters of prose the record names ex991pressrelease.htm and
\* holds the full prose.
C16_RecordDescribesWinner ==
    (pc = "dl_return" /\ dl.pr # None) =>
        /\ \E j \in 1..Len(dl.items) :
              /\ is_text_file(dl.items[j].name)
              /\ \A i \in 1..Len(dl.items) :
                    is_text_file(dl.items[i].name) =>
                        score_item(dl.items[i]) <= score_item(dl.items[j])
              /\ dl.pr.ExhibitFile = dl.items[j].name
              /\ dl.pr.ExhibitType = IF "type" \in DOMAIN dl.items[j]
                                     THEN dl.items[j].type ELSE <<>>
        /\ dl.pr.URL.host = "www.sec.gov"
        /\ dl.pr.URL.dir = "Archives/edgar/data"
        /\ Head(dl.pr.URL.cik) # "0"
        /\ \E z \in 0..10 :
              [k \in 1..z |-> "0"] \o dl.pr.URL.cik = aziende_cik[eidx].cik
        /\ dl.pr.URL.acc =
              SelectSeq(df_8k[fidx].Accession, LAMBDA ch : ch # "-")
        /\ dl.pr.URL.file = dl.pr.ExhibitFile
        /\ Len(sent) >= 1
        /\ \A k \in 1..Len(sent) : sent[k].url = dl.pr.URL
        /\ \A k \in 1..Len(prior) : prior[k].file = IndexJson
        /\ gw.url = dl.pr.URL
        /\ sent[Len(sent)].outcome = 200
        /\ dl.pr.Text = clean_html_to_text(gw.ret.body.doc)
        /\ (dl.items = ManifestPool[1].items) =>
              /\ dl.pr.ExhibitFile = <<"e","x","9","9","1","p","r","e","s","s",
                                       "r","e","l","e","a","s","e",".","h","t","m">>
              /\ RunLen(dl.pr.Text) = 1500

\* the example manifest produced its record, after an earlier filing
\* produced a record naming another file
C16_Witness ==
    /\ pc = "dl_return"
    /\ dl.pr # None
    /\ dl.items = ManifestPool[1].items
    /\ dl.pr.ExhibitType = <<"E","X","-","9","9",".","1">>
    /\ RunLen(dl.pr.Text) = 1500
    /\ Len(rows) >= 1
    /\ rows[1].ExhibitFile # <<"e","x","9","9","1","p","r","e","s","s",
                               "r","e","l","e","a","s","e",".","h","t","m">>

\* C18: after the attempt with 0-based index i is answered 429 or 5xx the
\* client waits 1.0 + 1.5*i seconds, and only then the pacing delay of the
\* next attempt: 1.0, 2.5 and 4.0 seconds after the first three attempts.
\* A backoff is waited only after such an answer.
C18_BackoffSchedule ==
    [][/\ (lastEvent' # lastEvent /\ lastEvent'.kind = "backoff") =>
            /\ sent' = sent
            /\ Len(sent) >= 1
            /\ sent[Len(sent)].outcome \in {429, 500, 501, 502, 503, 504}
            /\ lastEvent'.ms = 1000 + 1500 * (Len(sent) - 1)
            /\ Len(sent) = 1 => lastEvent'.ms = 1000
            /\ Len(sent) = 2 => lastEvent'.ms = 2500
            /\ Len(sent) = 3 => lastEvent'.ms = 4000
       /\ (/\ lastEvent' # lastEvent
           /\ lastEvent.kind = "get"
           /\ Len(sent) >= 1
           /\ sent[Len(sent)].outcome \in {429, 500, 501, 502, 503, 504}) =>
            lastEvent'.kind = "backoff"
       /\ (lastEvent' # lastEvent /\ lastEvent.kind = "backoff") =>
            lastEvent' = [kind |-> "pace", ms |-> 250]
      ]_vars

\* the third attempt of a call was answered 503 and its backoff was waited
C18_Witness ==
    /\ Len(sent) = 3
    /\ sent[1].outcome = 429
    /\ sent[3].outcome = 503
    /\ lastEvent = [kind |-> "backoff", ms |-> 4000]
    /\ gw.pc = "loop"

\* C19: within one call of download_best_press_release the stages run in
\* order and at most one attachment is fetched: a content request is sent
\* only after the manifest was obtained non-empty and a winner scoring at
\* least 20 was selected, every content request targets that winner, a
\* fetch that is not 200 or a text that is too short ends the call with
\* None without another candidate being tried, and the call sends at most
\* 4 manifest requests and 4 content requests.
C19_StagesInOrder ==
    [][/\ (pc = "manifest") => pc' \in {"manifest", "content", "dl_return", "crashed"}
       /\ (pc = "content") => pc' \in {"content", "dl_return", "crashed"}
       /\ (pc' = "content") => pc \in {"manifest", "content"}
       /\ (pc \in {"manifest", "content", "dl_return"}) =>
            /\ Len(prior) <= 4
            /\ Len(sent) <= 4
            /\ Len(prior) + Len(sent) <= 8
       /\ (pc = "manifest" /\ Len(sent') = Len(sent) + 1) =>
            /\ sent'[Len(sent')].url.file = IndexJson
            /\ prior = <<>>
       /\ (pc = "content" /\ Len(sent') = Len(sent) + 1) =>
            /\ Len(prior) >= 1
            /\ \A k \in 1..Len(prior) : prior[k].file = IndexJson
            /\ Len(dl.items) >= 1
            /\ \E j \in 1..Len(dl.items) : dl.best = dl.items[j]
            /\ score_item(dl.best) >= 20
            /\ \A k \in 1..Len(sent') :
                  /\ sent'[k].url.file = dl.best.name
                  /\ sent'[k].url = sent'[1].url
       /\ (pc = "content" /\ pc' # "content") =>
            /\ sent' = sent
            /\ prior' = prior
            /\ (pc' = "dl_return"
                  /\ (\/ sent[Len(sent)].outcome # 200
                      \/ RunLen(clean_html_to_text(gw.ret.body.doc)) < 1000)) =>
                  dl'.pr = None
       /\ (pc = "dl_return") => (sent' = <<>> /\ prior' = <<>>)
      ]_vars

\* a call that used all 8 requests: the manifest arrived at the fourth
\* attempt, the winner of two candidates was refused four times, and the
\* call ended with None
C19_Witness ==
    /\ pc = "dl_return"
    /\ dl.pr = None
    /\ Len(prior) = 4
    /\ Len(sent) = 4
    /\ sent[4].outcome = 503
    /\ dl.items = ManifestPool[6].items
    /\ \A k \in 1..4 : sent[k].url.file = dl.items[1].name

\* ------------------------------------------------------------------------
\* clean_html_to_text applied to its own output
\* ------------------------------------------------------------------------

MaxNodes == 2

\* the characters of a run-encoded string
RECURSIVE Expand(_)
Expand(t) ==
    IF t = <<>> THEN <<>>
    ELSE [k \in 1..Head(t).n |-> Head(t).c] \o Expand(Tail(t))

IndexOf(s, ch) ==
    IF \E k \in 1..Len(s) : s[k] = ch
    THEN CHOOSE k \in 1..Len(s) : s[k] = ch /\ \A j \in 1..(k - 1) : s[j] # ch
    ELSE 0

Letter(ch) == \E k \in 1..Len(LowerAlpha) : ch = LowerAlpha[k] \/ ch = UpperAlpha[k]

\* the tag name at the start of the inside of a tag: up to the first
\* whitespace or slash, lower-cased
RECURSIVE TagName(_)
TagName(inner) ==
    IF inner = <<>> \/ Head(inner) \in Whitespace \/ Head(inner) = "/"
    THEN <<>>
    ELSE <<LowerChar(Head(inner))>> \o TagName(Tail(inner))

\* the events html.parser reports for markup without attributes, comments
\* or declarations: start tags, end tags, and the characters of the text,
\* with the references &lt; &gt; &amp; decoded; a "<" that opens no tag is
\* text
RECURSIVE Tokens(_)
Tokens(s) ==
    IF s = <<>> THEN <<>>
    ELSE LET g == IndexOf(s, ">")
         IN  IF s[1] = "<" /\ Len(s) >= 2 /\ Letter(s[2]) /\ g > 0
             THEN LET inner == SubSeq(s, 2, g - 1)
                      open  == [kind |-> "open", name |-> TagName(inner)]
                      close == [kind |-> "close", name |-> TagName(inner)]
                  IN  (IF inner[Len(inner)] = "/" THEN <<open, close>>
                       ELSE <<open>>)
                      \o Tokens(SubSeq(s, g + 1, Len(s)))
             ELSE IF /\ s[1] = "<" /\ Len(s) >= 3 /\ s[2] = "/"
                     /\ Letter(s[3]) /\ g > 0
             THEN <<[kind |-> "close", name |-> TagName(SubSeq(s, 3, g - 1))]>>
                  \o Tokens(SubSeq(s, g + 1, Len(s)))
             ELSE IF StartsWith(s, <<"&","l","t",";">>)
             THEN <<[kind |-> "char", name |-> <<"<">>]>>
                  \o Tokens(SubSeq(s, 5, Len(s)))
             ELSE IF StartsWith(s, <<"&","g","t",";">>)
             THEN <<[kind |-> "char", name |-> <<">">>]>>
                  \o Tokens(SubSeq(s, 5, Len(s)))
             ELSE IF StartsWith(s, <<"&","a","m","p",";">>)
             THEN <<[kind |-> "char", name |-> <<"&">>]>>
                  \o Tokens(SubSeq(s, 6, Len(s)))
             ELSE <<[kind |-> "char", name |-> <<s[1]>>]>> \o Tokens(Tail(s))

\* a character of text joins the string being collected in the open element
AddText(contents, ch) ==
    IF contents # <<>> /\ contents[Len(contents)].kind = "text"
    THEN [contents EXCEPT ![Len(contents)].s = Append(@, [c |-> ch, n |-> 1])]
    ELSE Append(contents, TextNode(<<[c |-> ch, n |-> 1]>>))

\* the innermost open element is closed and becomes a child of its parent
CloseTop(stack) ==
    LET top == stack[Len(stack)]
        below == SubSeq(stack, 1, Len(stack) - 1)
    IN  [below EXCEPT ![Len(below)].contents =
            Append(@, Tag(top.name, NoAttrs, top.contents))]

\* an end tag closes the nearest open element of that name and all inside it
RECURSIVE PopTo(_, _)
PopTo(stack, name) ==
    IF stack[Len(stack)].name = name THEN CloseTop(stack)
    ELSE PopTo(CloseTop(stack), name)

\* the tree BeautifulSoup builds from the events
RECURSIVE Build(_, _)
Build(tokens, stack) ==
    IF tokens = <<>>
    THEN IF Len(stack) = 1 THEN stack[1].contents
         ELSE Build(tokens, CloseTop(stack))
    ELSE LET tk == Head(tokens)
         IN  IF tk.kind = "char"
             THEN Build(Tail(tokens),
                        [stack EXCEPT ![Len(stack)].contents = AddText(@, tk.name[1])])
             ELSE IF tk.kind = "open"
             THEN Build(Tail(tokens),
                        Append(stack, [name |-> tk.name, contents |-> <<>>]))
             ELSE IF \E k \in 2..Len(stack) : stack[k].name = tk.name
             THEN Build(Tail(tokens), PopTo(stack, tk.name))
             ELSE Build(Tail(tokens), stack)

\* BeautifulSoup(content, "html.parser") on the characters of content
Parse(s) == Build(Tokens(s), <<[name |-> <<>>, contents |-> <<>>]>>)

\* the strings of the text nodes of the documents below, as the parser
\* delivers them (references already decoded)
NodeTexts ==
    << <<[c |-> "a", n |-> 1], [c |-> "b", n |-> 1]>>,
       <<[c |-> " ", n |-> 1], [c |-> "a", n |-> 1], [c |-> " ", n |-> 3], [c |-> "b", n |-> 1], [c |-> " ", n |-> 1]>>,
       <<[c |-> "<", n |-> 1], [c |-> "b", n |-> 1], [c |-> ">", n |-> 1], [c |-> "x", n |-> 1], [c |-> "<", n |-> 1], [c |-> "/", n |-> 1], [c |-> "b", n |-> 1], [c |-> ">", n |-> 1]>>,
       <<[c |-> "&", n |-> 1], [c |-> "l", n |-> 1], [c |-> "t", n |-> 1], [c |-> ";", n |-> 1]>>,
       <<[c |-> "a", n |-> 1], [c |-> " ", n |-> 1], [c |-> "<", n |-> 1], [c |-> " ", n |-> 1], [c |-> "b", n |-> 1]>>,
       <<[c |-> "x", n |-> 1], [c |-> "&", n |-> 1], [c |-> "y", n |-> 1]>>,
       <<[c |-> "<", n |-> 1], [c |-> "s", n |-> 1], [c |-> "c", n |-> 1], [c |-> "r", n |-> 1], [c |-> "i", n |-> 1], [c |-> "p", n |-> 1], [c |-> "t", n |-> 1], [c |-> ">", n |-> 1], [c |-> "k", n |-> 1], [c |-> "<", n |-> 1], [c |-> "/", n |-> 1], [c |-> "s", n |-> 1], [c |-> "c", n |-> 1], [c |-> "r", n |-> 1], [c |-> "i", n |-> 1], [c |-> "p", n |-> 1], [c |-> "t", n |-> 1], [c |-> ">", n |-> 1]>>,
       <<[c |-> "a", n |-> 1], [c |-> "\n", n |-> 1], [c |-> "\t", n |-> 1], [c |-> "c", n |-> 1]>> >>

\* the nodes the documents below are made of
NodePool ==
    [k \in 1..Len(NodeTexts) |-> TextNode(NodeTexts[k])]
    \o [k \in 1..Len(NodeTexts) |->
          Tag(<<"p">>, NoAttrs, <<TextNode(NodeTexts[k])>>)]
    \o << Tag(<<"s","c","r","i","p","t">>, NoAttrs,
              <<TextNode(<<[c |-> "s", n |-> 3]>>)>>),
          Tag(<<"s","p","a","n">>,
              [style |-> <<"d","i","s","p","l","a","y",":","n","o","n","e">>],
              <<TextNode(<<[c |-> "h", n |-> 2]>>)>>),
          Tag(<<"i","x",":","x">>, NoAttrs,
              <<TextNode(<<[c |-> "7", n |-> 1]>>)>>) >>

\* a fetched document of up to MaxNodes top-level nodes is about to be
\* cleaned
InitClean ==
    /\ pc = "clean"
    /\ \E len \in 1..MaxNodes :
         \E doc \in [1..len -> 1..Len(NodePool)] :
            gw = [IdleFrame EXCEPT
                    !.pc = "returned",
                    !.ret = [status |-> 200, attempt |-> 1,
                             body |-> HtmlBody([k \in 1..len |-> NodePool[doc[k]]])]]
    /\ dl = NoDownload
    /\ eidx = 1
    /\ df_8k = <<>>
    /\ fidx = 1
    /\ found = 0
    /\ rows = <<>>
    /\ csv = None
    /\ exc = None
    /\ sent = <<>>
    /\ prior = <<>>
    /\ lastEvent = [kind |-> "start", ms |-> 0]

\* text = clean_html_to_text(r.content)
CleanApply ==
    /\ pc = "clean"
    /\ dl' = [dl EXCEPT !.text = clean_html_to_text(gw.ret.body.doc)]
    /\ pc' = "cleaned"
    /\ UNCHANGED <<eidx, df_8k, fidx, found, rows, csv, gw, exc, sent, prior,
                   lastEvent>>

\* the text is encoded and handed to clean_html_to_text as content: the
\* parser reads its characters
CleanEncode ==
    /\ pc = "cleaned"
    /\ gw' = [gw EXCEPT !.ret.body = HtmlBody(Parse(Expand(dl.text)))]
    /\ pc' = "reclean"
    /\ UNCHANGED <<eidx, df_8k, fidx, found, rows, csv, dl, exc, sent, prior,
                   lastEvent>>

\* clean_html_to_text applied to its own output
CleanReapply ==
    /\ pc = "reclean"
    /\ dl' = [dl EXCEPT !.text = clean_html_to_text(gw.ret.body.doc)]
    /\ pc' = "recleaned"
    /\ UNCHANGED <<eidx, df_8k, fidx, found, rows, csv, gw, exc, sent, prior,
                   lastEvent>>

NextClean ==
    \/ CleanApply
    \/ CleanEncode
    \/ CleanReapply

SpecClean == InitClean /\ [][NextClean]_vars

\* C17 as stated: for every input, clean_html_to_text applied to the
\* encoded result of clean_html_to_text yields the same string.
C17_IdempotentEveryInput ==
    [][pc = "reclean" => Expand(dl'.text) = Expand(dl.text)]_vars

\* C17: clean_html_to_text applied to the encoded result of
\* clean_html_to_text yields the same string whenever that result contains
\* neither "<" nor "&".
C17_IdempotentOnPlainText ==
    [][(pc = "reclean" /\ \A k \in 1..Len(dl.text) : dl.text[k].c \notin {"<", "&"})
          => Expand(dl'.text) = Expand(dl.text)]_vars

\* a document with a run of three blanks inside a text node was cleaned to "a b ab", and cleaning that text again has returned it
C17_Witness ==
    /\ pc = "recleaned"
    /\ Len(gw.ret.body.doc) = 1
    /\ gw.ret.body.doc[1].kind = "text"
    /\ Expand(gw.ret.body.doc[1].s) = <<"a"," ","b"," ","a","b">>
    /\ Expand(dl.text) = <<"a"," ","b"," ","a","b">>

=============================================================================
